---- MODULE Spec2Model ----
(***************************************************************************)
(* Model of the IW44 FFI bridges of DJVU-Encoder-Rust:                     *)
(*   src/src/ffi/simple_iw44_bridge.cpp  iw44_encode_slice_simple          *)
(*   src/src/ffi/iw44_bridge.cpp         the reference-counted session API *)
(* Two specifications share the module: SliceSpec drives the slice         *)
(* primitive with the cursor it returned, Spec drives one encoder session. *)
(***************************************************************************)
EXTENDS Integers, Sequences, FiniteSets, TLC

VARIABLES
    \* ---- caller memory of the slice primitive ----
    next_bit,       \* the int behind next_bit; fed back as cur_bit
    next_band,      \* the int behind next_band; fed back as cur_band
    output_size,    \* the int behind output_size
    output_buffer,  \* the bytes behind output_buffer
    status,         \* value returned by the last call (NONE before the first)
    args,           \* arguments of the last call
    calls,          \* number of calls so far that were not rejected
    start,          \* cursor the run started from
    plane_bands,    \* bands encoded since the bit plane last decremented
    completed,      \* bands of the plane that was completed last
    decs,           \* number of bit-plane decrements so far
    \* ---- encoder session bridge ----
    session,        \* the IW44Image object behind the handle
    handle,         \* the caller's IW44Encoder* (NULL or the session)
    heap,           \* malloc'ed output buffers
    owned,          \* buffers handed to the caller and not yet released
    leaked,         \* buffers allocated that nobody can release any more
    output_data,    \* the uint8_t* behind output_data
    out_size,       \* the size_t behind output_size of iw44_encode_chunk
    result,         \* value returned by the last bridge call
    op              \* the last bridge call and what it observed

sliceVars == <<next_bit, next_band, output_size, output_buffer, status, args,
               calls, start, plane_bands, completed, decs>>
bridgeVars == <<session, handle, heap, owned, leaked, output_data,
                out_size, result, op>>
vars == <<sliceVars, bridgeVars>>

----------------------------------------------------------------------------
\* Status codes (simple_iw44_bridge.cpp line 8).
MORE == 1
DONE == 0
ERROR == -1
NONE == MORE + 1   \* no call made yet

\* Number of bands per bit plane (simple_iw44_bridge.cpp line 34).
BANDS_PER_PLANE == 10
\* Size of the slice the stub writes (lines 43-48) and its marker bytes.
SLICE_BYTES == 4
MARK_A == 170
MARK_B == 187

\* Bounds of the slice model.
MaxBit == 2        \* highest starting bit plane
MaxCap == 5        \* physical length of the caller's output buffer
FillByte == 204    \* what the caller puts in its buffer before a call

\* x & 0xFF for a two's-complement int.
Byte(x) == x % 256

\* The cursor progression of lines 31-37.
AdvanceWrongBound(cur_bit, cur_band) ==
    IF cur_band + 1 > BANDS_PER_PLANE
    THEN [bit |-> cur_bit - 1, band |-> 0]
    ELSE [bit |-> cur_bit, band |-> cur_band + 1]

AdvanceBitFirst(cur_bit, cur_band) ==
    IF cur_band + 1 >= BANDS_PER_PLANE
    THEN [bit |-> cur_bit - 1, band |-> 0]
    ELSE [bit |-> cur_bit - 1, band |-> cur_band + 1]

Advance(cur_bit, cur_band) ==
    LET new_band == cur_band + 1
    IN  IF new_band >= BANDS_PER_PLANE
        THEN [bit |-> cur_bit - 1, band |-> 0]
        ELSE [bit |-> cur_bit, band |-> new_band]

\* The dummy slice of lines 43-51: mem is the caller memory on entry.
WriteSliceNoCheck(a, mem) ==
    [size |-> SLICE_BYTES,
     buf  |-> [i \in 1..Len(mem.buf) |->
                 CASE i = 1 -> Byte(a.cur_bit)
                   [] i = 2 -> Byte(a.cur_band)
                   [] i = 3 -> MARK_A
                   [] i = 4 -> MARK_B
                   [] OTHER -> mem.buf[i]]]

WriteSlice(a, mem) ==
    IF mem.size >= SLICE_BYTES
    THEN [size |-> SLICE_BYTES,
          buf  |-> [i \in 1..Len(mem.buf) |->
                      CASE i = 1 -> Byte(a.cur_bit)
                        [] i = 2 -> Byte(a.cur_band)
                        [] i = 3 -> MARK_A
                        [] i = 4 -> MARK_B
                        [] OTHER -> mem.buf[i]]]
    ELSE [size |-> 0, buf |-> mem.buf]

\* Return value of line 54.
SliceStatusStrict(new_bit) == IF new_bit > 0 THEN MORE ELSE DONE

SliceStatus(new_bit) == IF new_bit >= 0 THEN MORE ELSE DONE

\* The null check of line 26: TRUE when the call is rejected.
Rejected(a) ==
    \/ ~a.coeffs \/ ~a.output_buffer \/ ~a.p_output_size
    \/ ~a.p_next_bit \/ ~a.p_next_band

\* iw44_encode_slice_simple: a holds the arguments (pointers as "non-null"
\* flags), mem the caller memory on entry; the result is the return value and
\* the caller memory on return.
EncodeSliceLateCheck(a, mem) ==
    LET n == Advance(a.cur_bit, a.cur_band)
        w == WriteSlice(a, mem)
    IN  IF Rejected(a)
        THEN [ret |-> ERROR, bit |-> n.bit, band |-> n.band,
              size |-> w.size, buf |-> w.buf]
        ELSE [ret |-> SliceStatus(n.bit), bit |-> n.bit, band |-> n.band,
              size |-> w.size, buf |-> w.buf]

iw44_encode_slice_simple(a, mem) ==
    IF Rejected(a)
    THEN [ret |-> ERROR, bit |-> mem.bit, band |-> mem.band,
          size |-> mem.size, buf |-> mem.buf]
    ELSE LET n == Advance(a.cur_bit, a.cur_band)
             w == WriteSlice(a, mem)
         IN  [ret |-> SliceStatus(n.bit), bit |-> n.bit, band |-> n.band,
              size |-> w.size, buf |-> w.buf]

----------------------------------------------------------------------------
\* The driver of the slice primitive: a caller that keeps its cursor in two
\* ints, passes them as cur_bit/cur_band and their addresses as
\* next_bit/next_band, and calls again while the status is not DONE.

StartBits == -1..MaxBit
StartBands == -1..BANDS_PER_PLANE
Caps == {-1, SLICE_BYTES - 1, SLICE_BYTES, MaxCap}

\* Which of the five checked pointers is null (at most one).
PtrCases ==
    {[coeffs |-> c, output_buffer |-> b, p_output_size |-> s,
      p_next_bit |-> nb, p_next_band |-> nd] :
        <<c, b, s, nb, nd>> \in
          {<<TRUE, TRUE, TRUE, TRUE, TRUE>>, <<FALSE, TRUE, TRUE, TRUE, TRUE>>,
           <<TRUE, FALSE, TRUE, TRUE, TRUE>>, <<TRUE, TRUE, FALSE, TRUE, TRUE>>,
           <<TRUE, TRUE, TRUE, FALSE, TRUE>>, <<TRUE, TRUE, TRUE, TRUE, FALSE>>}}

\* Quantization tables and dimensions: valid, or one thing wrong.
AuxCases ==
    {[quant_lo |-> TRUE,  quant_hi |-> TRUE,  width |-> 2, height |-> 2,  num_coeffs |-> 4],
     [quant_lo |-> FALSE, quant_hi |-> TRUE,  width |-> 2, height |-> 2,  num_coeffs |-> 4],
     [quant_lo |-> TRUE,  quant_hi |-> FALSE, width |-> 2, height |-> 2,  num_coeffs |-> 4],
     [quant_lo |-> TRUE,  quant_hi |-> TRUE,  width |-> 0, height |-> 2,  num_coeffs |-> 0],
     [quant_lo |-> TRUE,  quant_hi |-> TRUE,  width |-> 2, height |-> -1, num_coeffs |-> -2],
     [quant_lo |-> TRUE,  quant_hi |-> TRUE,  width |-> 2, height |-> 2,  num_coeffs |-> 3]}

AllPtrs == CHOOSE p \in PtrCases : ~Rejected(p)
GoodAux == CHOOSE x \in AuxCases :
             x.quant_lo /\ x.quant_hi /\ x.width > 0 /\ x.height > 0
             /\ x.num_coeffs = x.width * x.height

\* The calls the driver makes: accepted pointers with any tables, dimensions
\* and capacity, or one null pointer with everything else valid.
CallCases ==
    {<<AllPtrs, x, cap>> : x \in AuxCases, cap \in Caps}
    \cup {<<p, GoodAux, cap>> : p \in PtrCases, cap \in {SLICE_BYTES - 1, MaxCap}}

Filled == [i \in 1..MaxCap |-> FillByte]

MkArgs(p, x, cap, bit, band) ==
    [coeffs |-> p.coeffs, output_buffer |-> p.output_buffer,
     p_output_size |-> p.p_output_size, p_next_bit |-> p.p_next_bit,
     p_next_band |-> p.p_next_band,
     quant_lo |-> x.quant_lo, quant_hi |-> x.quant_hi,
     width |-> x.width, height |-> x.height, num_coeffs |-> x.num_coeffs,
     cap |-> cap, cur_bit |-> bit, cur_band |-> band]

\* Caller memory on entry of a call with arguments a.
EntryMem(a) == [bit |-> a.cur_bit, band |-> a.cur_band, size |-> a.cap, buf |-> Filled]

BridgeIdle ==
    /\ session = [state |-> "none", count |-> 0, slices |-> 0, bytes |-> 0, done |-> FALSE]
    /\ handle = 0
    /\ heap = <<>>
    /\ owned = {}
    /\ leaked = {}
    /\ output_data = 0
    /\ out_size = 0
    /\ result = NONE
    /\ op = [name |-> "none"]

SliceInit ==
    /\ next_bit \in StartBits
    /\ next_band \in StartBands
    /\ output_size = 0
    /\ output_buffer = Filled
    /\ status = NONE
    /\ args = MkArgs(CHOOSE p \in PtrCases : ~p.coeffs,
                     CHOOSE x \in AuxCases : ~x.quant_lo, 0, next_bit, next_band)
    /\ calls = 0
    /\ start = [bit |-> next_bit, band |-> next_band]
    /\ plane_bands = <<>>
    /\ completed = <<>>
    /\ decs = 0
    /\ BridgeIdle

\* One call of iw44_encode_slice_simple with the cursor of the previous call.
EncodeSlice ==
    /\ status # DONE
    /\ \E c \in CallCases :
         LET a == MkArgs(c[1], c[2], c[3], next_bit, next_band)
             r == iw44_encode_slice_simple(a, EntryMem(a))
         IN  /\ args' = a
             /\ status' = r.ret
             /\ next_bit' = r.bit
             /\ next_band' = r.band
             /\ output_size' = r.size
             /\ output_buffer' = r.buf
             /\ IF r.ret = ERROR
                THEN UNCHANGED <<calls, plane_bands, completed, decs>>
                ELSE /\ calls' = calls + 1
                     /\ IF r.bit < a.cur_bit
                        THEN /\ completed' = Append(plane_bands, a.cur_band)
                             /\ plane_bands' = <<>>
                             /\ decs' = decs + 1
                        ELSE /\ plane_bands' = Append(plane_bands, a.cur_band)
                             /\ UNCHANGED <<completed, decs>>
    /\ UNCHANGED <<start, bridgeVars>>

SliceNext == EncodeSlice

SliceSpec == SliceInit /\ [][SliceNext]_vars

----------------------------------------------------------------------------
\* The encoder session bridge (iw44_bridge.cpp).

NULL == 0
TheSession == 1     \* the one IW44Image object of the model

\* Bounds of the session model.
TotalSlices == 2    \* slices the codec has to emit before it reports DONE
MaxChunk == 2       \* most bytes one encode_chunk call writes to its stream
MaxBufs == 1        \* output buffers malloc can have live at once

Min(a, b) == IF a < b THEN a ELSE b

\* ---- collaborators outside src/: GP<T>, IW44Image, ByteStream, malloc ----

\* GP<IW44Image>(T*): the intrusive smart pointer takes a reference.
GP_ctor(s) == [s EXCEPT !.count = @ + 1]

\* ~GP<IW44Image>: drops the reference; the last one destroys the object.
GP_dtor(s) ==
    IF s.count - 1 = 0
    THEN [s EXCEPT !.count = 0, !.state = "destroyed"]
    ELSE [s EXCEPT !.count = @ - 1]

\* IW44Image::create_encode followed by GP::take(): a live session holding
\* the single reference that take() leaves with the raw pointer.
FreshSession ==
    [state |-> "live", count |-> 1, slices |-> 0, bytes |-> 0, done |-> FALSE]

\* Target descriptors: a null pointer is modelled by the flag in ChunkPtrCases.
ParmCases ==
    {[slices |-> 0, bytes |-> 0, decibels |-> 0],
     [slices |-> 1, bytes |-> 0, decibels |-> 0],
     [slices |-> 0, bytes |-> MaxChunk, decibels |-> 0]}

Malformed(parms) == parms.slices <= 0 /\ parms.bytes <= 0 /\ parms.decibels <= 0

\* Byte values the encoder writes; Uninit is what malloc'ed memory holds.
ByteVals == {0, 1}
Uninit == FillByte

ChunkBytes ==
    UNION {[1..n -> ByteVals] : n \in 1..MaxChunk}

\* IW44Image::encode_chunk(stream, parms) on session s: the set of outcomes.
\* A malformed target or an internal fault throws and leaves the counters; a
\* DONE session reports 0 and writes nothing; otherwise k slices are coded,
\* their bytes written to the stream and counted, and the value is 0 exactly
\* when the codec finished with this chunk.
EncoderOutcomes(s, parms) ==
    IF Malformed(parms)
    THEN {[throws |-> TRUE, ret |-> ERROR, stream |-> <<>>, session |-> s]}
    ELSE IF s.done
    THEN {[throws |-> FALSE, ret |-> DONE, stream |-> <<>>, session |-> s]}
    ELSE {[throws |-> TRUE, ret |-> ERROR, stream |-> <<>>, session |-> s]}
         \cup
         {[throws |-> FALSE,
           ret |-> IF s.slices + k = TotalSlices THEN DONE ELSE MORE,
           stream |-> b,
           session |-> [s EXCEPT !.slices = @ + k, !.bytes = @ + Len(b),
                                 !.done = (s.slices + k = TotalSlices)]] :
            k \in 1..(IF parms.slices > 0
                      THEN Min(parms.slices, TotalSlices - s.slices)
                      ELSE TotalSlices - s.slices),
            b \in ChunkBytes}

\* malloc(n) on heap h: NULL, or a block that is not allocated at the moment.
BufIds == 1..MaxBufs
Allocated(h) == {b \in DOMAIN h : h[b].alloc}
MallocOutcomes(h) == {NULL} \cup (BufIds \ Allocated(h))

EmptyHeap == [b \in BufIds |-> [alloc |-> FALSE, bytes |-> <<>>]]

\* ---- the bridge ----

\* Line 109: TRUE when iw44_encode_chunk rejects its arguments.
ChunkRejectedNoHandleCheck(enc, pc) ==
    ~pc.parms \/ ~pc.output_data \/ ~pc.output_size

ChunkRejected(enc, pc) ==
    enc = NULL \/ ~pc.parms \/ ~pc.output_data \/ ~pc.output_size

\* Lines 131-132: the number of bytes to hand over is the stream's size.
DataSizeOffByOne(stream) == Len(stream) + 1

DataSize(stream) == Len(stream)

\* Line 139: readall copies data_size bytes of the stream into the block
\* (bytes past the end of the stream stay whatever malloc left there).
ReadAll(stream, n) ==
    [i \in 1..n |-> IF i <= Len(stream) THEN stream[i] ELSE Uninit]

\* Lines 184-186: free(data) for a non-null pointer.
FreeOutputKeeps(h, data) == h

FreeOutput(h, data) ==
    IF data # NULL
    THEN [h EXCEPT ![data] = [alloc |-> FALSE, bytes |-> <<>>]]
    ELSE h

ChunkPtrCases ==
    {[parms |-> a, output_data |-> b, output_size |-> c] :
        <<a, b, c>> \in {<<TRUE, TRUE, TRUE>>, <<FALSE, TRUE, TRUE>>,
                         <<TRUE, FALSE, TRUE>>, <<TRUE, TRUE, FALSE>>}}

SliceIdle ==
    /\ next_bit = 0
    /\ next_band = 0
    /\ output_size = 0
    /\ output_buffer = Filled
    /\ status = NONE
    /\ args = MkArgs(AllPtrs, GoodAux, 0, 0, 0)
    /\ calls = 0
    /\ start = [bit |-> 0, band |-> 0]
    /\ plane_bands = <<>>
    /\ completed = <<>>
    /\ decs = 0

NoSession ==
    [state |-> "none", count |-> 0, slices |-> 0, bytes |-> 0, done |-> FALSE]

Init ==
    /\ SliceIdle
    /\ session = NoSession
    /\ handle = NULL
    /\ heap = EmptyHeap
    /\ owned = {}
    /\ leaked = {}
    /\ output_data = NULL
    /\ out_size = 0
    /\ result = NONE
    /\ op = [name |-> "none"]

\* What a bridge call leaves alone unless it says otherwise.
Observe(name, enc, before) ==
    [name |-> name, enc |-> enc, before |-> before,
     heap_before |-> Allocated(heap), data_before |-> output_data,
     size_before |-> out_size, stream |-> <<>>, ran |-> FALSE,
     allocated |-> NULL, parms |-> NULL, data |-> NULL,
     handle_before |-> handle, rejected |-> FALSE,
     in |-> NULL, read_pixels |-> FALSE]

\* Arguments of session creation: pointers as "non-null" flags.
NewCases ==
    {[image_data |-> i, mask_data |-> m, width |-> d[1], height |-> d[2]] :
        i \in BOOLEAN, m \in BOOLEAN, d \in {<<2, 2>>, <<0, 2>>, <<2, -1>>}}

\* Lines 33-37 and 72-80: the copy loops run, and read image_data, exactly
\* when both dimensions are positive; nothing tests the arguments before.
ReadsPixels(in) == in.height > 0 /\ in.width > 0

\* The process is gone after a crash.
CRASHED == ERROR - 1
Running == result # CRASHED

\* How a creation call can end.  Reading through a null image_data is
\* undefined: the process crashes or the call goes on with whatever it read.
\* Otherwise GBitmap/GPixmap::create and IW44Image::create_encode either
\* deliver the encoder or throw, and the catch-all returns nullptr.
NewOutcomes(in) ==
    IF ReadsPixels(in) /\ ~in.image_data
    THEN {"crash", "created", "thrown"}
    ELSE {"created", "thrown"}

\* iw44_encoder_new_grayscale / iw44_encoder_new_color (lines 24-60, 63-101).
NewEncoder(name) ==
    /\ session.state = "none"
    /\ \E in \in NewCases : \E how \in NewOutcomes(in) :
         /\ session' = IF how = "created" THEN FreshSession ELSE session
         /\ handle' = IF how = "created" THEN TheSession ELSE NULL
         /\ result' = IF how = "crash" THEN CRASHED ELSE handle'
         /\ op' = [Observe(name, NULL, session) EXCEPT
                     !.in = in, !.read_pixels = ReadsPixels(in)]
    /\ UNCHANGED <<heap, owned, leaked, output_data, out_size, sliceVars>>

iw44_encoder_new_grayscale == NewEncoder("new_grayscale")
iw44_encoder_new_color == NewEncoder("new_color")

\* iw44_encode_chunk (lines 104-148).  The caller passes NULL or its handle;
\* o is what IW44Image::encode_chunk did, data what malloc returned, readOk
\* whether readall returned normally.  The GP taken at line 113 is dropped on
\* every way out of the function.
iw44_encode_chunk ==
    /\ \E enc \in {NULL, handle}, pc \in ChunkPtrCases, parms \in ParmCases :
         IF ChunkRejected(enc, pc)
         THEN /\ result' = ERROR
              /\ op' = [Observe("encode_chunk", enc, session) EXCEPT
                          !.parms = parms, !.rejected = TRUE]
              /\ UNCHANGED <<session, heap, owned, leaked, output_data, out_size>>
         ELSE \E o \in EncoderOutcomes(GP_ctor(session), parms),
                 data \in MallocOutcomes(heap), readOk \in BOOLEAN :
              LET data_size == DataSize(o.stream)
                  early  == o.throws \/ o.ret <= 0
                  got    == ~early /\ data # NULL
                  handed == got /\ readOk
              IN  /\ session' = GP_dtor(o.session)
                  /\ result' = IF o.throws THEN ERROR
                               ELSE IF o.ret <= 0 THEN o.ret
                               ELSE IF data = NULL \/ ~readOk THEN ERROR
                               ELSE o.ret
                  /\ heap' = IF got
                             THEN [heap EXCEPT ![data] =
                                     [alloc |-> TRUE,
                                      bytes |-> IF readOk
                                                THEN ReadAll(o.stream, data_size)
                                                ELSE ReadAll(<<>>, data_size)]]
                             ELSE heap
                  /\ output_data' = IF handed THEN data ELSE output_data
                  /\ out_size' = IF handed THEN data_size ELSE out_size
                  /\ owned' = IF handed THEN owned \cup {data} ELSE owned
                  /\ leaked' = IF got /\ ~readOk THEN leaked \cup {data} ELSE leaked
                  /\ op' = [Observe("encode_chunk", enc, session) EXCEPT
                              !.parms = parms, !.stream = o.stream,
                              !.ran = ~o.throws,
                              !.allocated = IF got THEN data ELSE NULL]
    /\ UNCHANGED <<handle, sliceVars>>

\* iw44_get_slices / iw44_get_bytes (lines 151-172).
QueryNoRef(name, field) ==
    /\ \E enc \in {NULL, handle} :
         /\ op' = Observe(name, enc, session)
         /\ IF enc = NULL
            THEN result' = ERROR /\ session' = session
            ELSE result' = session[field] /\ session' = GP_dtor(session)
    /\ UNCHANGED <<handle, heap, owned, leaked, output_data, out_size, sliceVars>>

Query(name, field) ==
    /\ \E enc \in {NULL, handle} :
         /\ op' = Observe(name, enc, session)
         /\ IF enc = NULL
            THEN result' = ERROR /\ session' = session
            ELSE LET iw44 == GP_ctor(session)
                 IN  result' = iw44[field] /\ session' = GP_dtor(iw44)
    /\ UNCHANGED <<handle, heap, owned, leaked, output_data, out_size, sliceVars>>

iw44_get_slices == Query("get_slices", "slices")
iw44_get_bytes == Query("get_bytes", "bytes")

\* iw44_encoder_free (lines 175-180): a GP is built from the raw pointer and
\* dropped at the end of the block.  The caller forgets a handle it released.
iw44_encoder_free ==
    /\ \E enc \in {NULL, handle} :
         /\ op' = Observe("encoder_free", enc, session)
         /\ session' = IF enc # NULL THEN GP_dtor(GP_ctor(session)) ELSE session
         /\ handle' = IF enc # NULL THEN NULL ELSE handle
         /\ result' = NONE
    /\ UNCHANGED <<heap, owned, leaked, output_data, out_size, sliceVars>>

\* iw44_free_output (lines 183-187) on NULL or a buffer the caller holds.
iw44_free_output ==
    /\ \E data \in {NULL} \cup owned :
         /\ op' = [Observe("free_output", NULL, session) EXCEPT !.data = data]
         /\ heap' = FreeOutput(heap, data)
         /\ owned' = owned \ {data}
         /\ result' = NONE
    /\ UNCHANGED <<session, handle, leaked, output_data, out_size, sliceVars>>

Next ==
    \/ Running /\ iw44_encoder_new_grayscale
    \/ Running /\ iw44_encoder_new_color
    \/ Running /\ iw44_encode_chunk
    \/ Running /\ iw44_get_slices
    \/ Running /\ iw44_get_bytes
    \/ Running /\ iw44_encoder_free
    \/ Running /\ iw44_free_output

Spec == Init /\ [][Next]_vars

----------------------------------------------------------------------------
\* Properties of the slice primitive (checked under SliceSpec).

Accepted == status \in {MORE, DONE}
ValidStart == start.bit >= 0 /\ start.band \in 0..(BANDS_PER_PLANE - 1)
StepsToDone == (start.bit + 1) * BANDS_PER_PLANE

\* C1: from cursor (b, 0) with b >= 0, re-feeding the returned cursor, the
\* status is MORE on each of the first (b+1)*10 - 1 calls and DONE exactly on
\* call (b+1)*10, which returns the cursor (-1, 0).
C1_DoneAfterExactly ==
    (start.bit >= 0 /\ start.band = 0 /\ Accepted) =>
        /\ calls <= StepsToDone
        /\ (calls < StepsToDone => status = MORE)
        /\ (calls = StepsToDone =>
              status = DONE /\ next_bit = -1 /\ next_band = 0)

C1_Witness ==
    /\ start = [bit |-> MaxBit, band |-> 0]
    /\ status = DONE
    /\ calls = (MaxBit + 1) * BANDS_PER_PLANE

\* C2: for an accepted call with band in 0..9 the returned cursor is
\* band' = (band + 1) mod 10, and bit' = bit - 1 if band' = 0, else bit' = bit.
C2_CursorAdvance ==
    (Accepted /\ args.cur_band \in 0..(BANDS_PER_PLANE - 1)) =>
        /\ next_band = (args.cur_band + 1) % BANDS_PER_PLANE
        /\ next_bit = IF next_band = 0 THEN args.cur_bit - 1 ELSE args.cur_bit

C2_Witness ==
    /\ Accepted
    /\ args.cur_band = BANDS_PER_PLANE - 1
    /\ args.cur_bit = 1
    /\ next_band = 0
    /\ next_bit = 0

\* C3: along a run from a valid cursor every accepted call strictly decreases
\* (bit plane, -band) in lexicographic order, and between two consecutive
\* decrements of the bit plane the band takes the values 0, 1, ..., 9 in that
\* order, each exactly once.
Upto(n) == [i \in 1..n |-> i - 1]

C3_LexStep ==
    (ValidStart /\ calls' = calls + 1) =>
        \/ next_bit' < next_bit
        \/ next_bit' = next_bit /\ (0 - next_band') < (0 - next_band)

C3_BandCycle ==
    ValidStart =>
        /\ (decs >= 2 => completed = Upto(BANDS_PER_PLANE))
        /\ (decs >= 1 => plane_bands = Upto(Len(plane_bands)))
        /\ Len(plane_bands) < BANDS_PER_PLANE + 1

C3_Monotone == [][C3_LexStep]_vars /\ []C3_BandCycle

C3_Witness ==
    /\ ValidStart
    /\ decs = 2
    /\ start.band = 3
    /\ status = MORE
    /\ completed = Upto(BANDS_PER_PLANE)

\* C7: a stated capacity below the 4-byte slice makes the call return ERROR.
C7_UndersizedIsError ==
    (status # NONE /\ ~Rejected(args) /\ args.cap \in 0..(SLICE_BYTES - 1)) =>
        status = ERROR

\* C8: a null quantization table, a non-positive dimension or a coefficient
\* count other than width*height is rejected with ERROR and nothing written.
InvalidInput(a) ==
    \/ ~a.quant_lo \/ ~a.quant_hi
    \/ a.width <= 0 \/ a.height <= 0
    \/ a.num_coeffs # a.width * a.height

C8_InvalidRejected ==
    (status # NONE /\ InvalidInput(args)) =>
        /\ status = ERROR
        /\ next_bit = args.cur_bit /\ next_band = args.cur_band
        /\ output_size = args.cap /\ output_buffer = Filled

\* C12: the status is ERROR exactly when one of the five checked pointers is
\* null; otherwise it is MORE exactly when the returned bit plane is >= 0 and
\* DONE exactly when it is < 0.
C12_TriState ==
    status # NONE =>
        /\ status \in {MORE, DONE, ERROR}
        /\ (status = ERROR <=> Rejected(args))
        /\ ~Rejected(args) =>
             /\ (status = MORE <=> next_bit >= 0)
             /\ (status = DONE <=> next_bit < 0)

C12_Witness ==
    /\ status = DONE
    /\ ~Rejected(args)
    /\ next_bit = -1
    /\ args.cur_bit = 0
    /\ calls > BANDS_PER_PLANE

\* C13: with a non-negative stated capacity the size reported on return does
\* not exceed the capacity, and no byte at an index at or beyond the capacity
\* is written.
C13_WithinCapacity ==
    (status # NONE /\ args.cap >= 0) =>
        /\ output_size <= args.cap
        /\ \A i \in 1..Len(output_buffer) :
             i - 1 >= args.cap => output_buffer[i] = Filled[i]

C13_Witness ==
    /\ Accepted
    /\ args.cap = SLICE_BYTES
    /\ output_size = SLICE_BYTES
    /\ output_buffer[SLICE_BYTES] = MARK_B
    /\ output_buffer[SLICE_BYTES + 1] = FillByte

\* C15: along a run that starts with band in 0..9 every band the cursor takes
\* is in 0..9, so it indexes the 10-entry and the 16-entry table.
C15_BandInRange ==
    start.band \in 0..(BANDS_PER_PLANE - 1) =>
        /\ next_band \in 0..(BANDS_PER_PLANE - 1)
        /\ args.cur_band \in 0..(BANDS_PER_PLANE - 1)
        /\ next_band < 16

C15_Witness ==
    /\ start.band = BANDS_PER_PLANE - 1
    /\ start.bit = MaxBit
    /\ Accepted
    /\ args.cur_band = BANDS_PER_PLANE - 1
    /\ next_band = 0
    /\ decs = 2

\* C19: a call that returns ERROR has written nothing: the cursor, the size
\* and the buffer are as on entry.
C19_ErrorWritesNothing ==
    status = ERROR =>
        /\ next_bit = args.cur_bit
        /\ next_band = args.cur_band
        /\ output_size = args.cap
        /\ output_buffer = Filled

C19_Witness ==
    /\ status = ERROR
    /\ ~args.coeffs
    /\ args.cap = MaxCap
    /\ calls = BANDS_PER_PLANE
    /\ start = [bit |-> 1, band |-> 0]
    /\ next_bit = 0
    /\ next_band = 0

----------------------------------------------------------------------------
\* Properties of the session bridge (checked under Spec).

\* C4: one iw44_encoder_free on a created handle brings the reference count
\* to zero and destroys the session.
C4_OneReleaseDestroys ==
    (op.name = "encoder_free" /\ op.enc # NULL) =>
        session.count = 0 /\ session.state = "destroyed"

\* C5: on a session already DONE, iw44_encode_chunk with a well-formed target
\* returns DONE with *output_size reported as 0 and the counters unchanged.
C5_DoneIsIdempotent ==
    (op.name = "encode_chunk" /\ ~op.rejected /\ op.before.done
        /\ ~Malformed(op.parms)) =>
        /\ result = DONE
        /\ out_size = 0
        /\ session.slices = op.before.slices
        /\ session.bytes = op.before.bytes

\* C6: whenever iw44_encode_chunk returns ERROR on a live session the
\* counters have the values they had before the call.
C6_ErrorKeepsCounters ==
    (op.name = "encode_chunk" /\ op.enc # NULL /\ result = ERROR) =>
        /\ session.slices = op.before.slices
        /\ session.bytes = op.before.bytes

\* C9: a buffer handed out by iw44_encode_chunk is a block that was not
\* allocated before the call, holds exactly the bytes the encoder wrote with
\* *output_size their number, stays allocated and untouched while the caller
\* holds it, and one iw44_free_output releases it.
Handed == op.name = "encode_chunk" /\ result = MORE

C9_Handoff ==
    /\ Handed =>
         /\ output_data # NULL
         /\ output_data \notin op.heap_before
         /\ output_data \in owned
         /\ out_size = Len(op.stream)
         /\ heap[output_data].bytes = op.stream
    /\ \A b \in owned : heap[b].alloc
    /\ (op.name = "free_output" /\ op.data # NULL) =>
         /\ op.data \in op.heap_before
         /\ ~heap[op.data].alloc
         /\ op.data \notin owned

C9_Kept == \A b \in owned \cap owned' : heap'[b] = heap[b]

C9_BufferOwnership == []C9_Handoff /\ [][C9_Kept]_vars

C9_Witness ==
    /\ op.name = "free_output"
    /\ op.data # NULL
    /\ op.data = output_data
    /\ out_size = MaxChunk
    /\ Allocated(heap) = {}

\* C10: with a null handle iw44_encode_chunk, iw44_get_slices and
\* iw44_get_bytes return -1, iw44_encoder_free does nothing, no session is
\* touched and iw44_encode_chunk leaves *output_data and *output_size alone.
C10_NullHandle ==
    (op.name \in {"encode_chunk", "get_slices", "get_bytes", "encoder_free"}
        /\ op.enc = NULL) =>
        /\ session = op.before
        /\ handle = op.handle_before
        /\ Allocated(heap) = op.heap_before
        /\ output_data = op.data_before
        /\ out_size = op.size_before
        /\ (op.name # "encoder_free" => result = ERROR)

C10_Witness ==
    /\ op.name = "encode_chunk"
    /\ op.enc = NULL
    /\ ~Malformed(op.parms)
    /\ handle = TheSession
    /\ session.state = "live"
    /\ ~session.done
    /\ result = ERROR

\* C11: session creation returns the null handle, without reading the pixel
\* buffer, whenever width or height is non-positive or image_data is null.
IsNew == op.name \in {"new_grayscale", "new_color"}

C11_CreationRejects ==
    (IsNew /\ (op.in.width <= 0 \/ op.in.height <= 0 \/ ~op.in.image_data)) =>
        /\ result = NULL
        /\ ~op.read_pixels

\* C14: iw44_get_slices and iw44_get_bytes on a live handle leave the
\* session's counters, terminal flag, reference count and liveness as they
\* were, return the counter they name, and two consecutive queries of the
\* same counter return the same value.
IsQuery == op.name \in {"get_slices", "get_bytes"} /\ op.enc # NULL

C14_QueryFrame ==
    IsQuery =>
        /\ session = op.before
        /\ session.state = "live"
        /\ session.count = 1
        /\ handle = op.handle_before
        /\ Allocated(heap) = op.heap_before
        /\ result = IF op.name = "get_slices" THEN session.slices
                    ELSE session.bytes

C14_SameAnswer ==
    (IsQuery /\ op'.name = op.name /\ op'.enc # NULL) => result' = result

C14_QueriesPure == []C14_QueryFrame /\ [][C14_SameAnswer]_vars

C14_Witness ==
    /\ op.name = "get_bytes"
    /\ op.enc # NULL
    /\ session.done
    /\ result = MaxChunk + 1
    /\ session.slices = TotalSlices

\* C17: in every call that reports MORE or DONE and in which the encoder
\* wrote n > 0 bytes to the stream, the caller receives a buffer holding
\* exactly those bytes with *output_size = n.
C17_NoBytesDropped ==
    (op.name = "encode_chunk" /\ op.ran /\ Len(op.stream) > 0
        /\ result \in {MORE, DONE}) =>
        /\ op.allocated # NULL
        /\ output_data = op.allocated
        /\ output_data \in owned
        /\ out_size = Len(op.stream)
        /\ heap[output_data].bytes = op.stream

\* C18: a block allocated during iw44_encode_chunk has been handed to the
\* caller through *output_data or freed by the time the call returns.
C18_NoLeak ==
    (op.name = "encode_chunk" /\ op.allocated # NULL) =>
        \/ output_data = op.allocated /\ op.allocated \in owned
        \/ ~heap[op.allocated].alloc

====
